---- MODULE Spec2Model ----
(***************************************************************************)
(* A model of simbuf's Buffer (src/src/lib.rs): a Vec<u8> `data` plus a    *)
(* read cursor `rpos`.  The Vec is modelled as its allocation: the bytes   *)
(* physically present in the block (`mem`, which keeps stale bytes after   *)
(* a clear), its length `len` and its capacity `cap`.  Two buffer values   *)
(* are kept so that operations taking a second buffer (append, eq, clone)  *)
(* have an operand; `live` is the set of buffer values that exist.         *)
(***************************************************************************)
EXTENDS Integers, Sequences, FiniteSets, TLC

\* ---------------------------------------------------------------- bounds
\* Longest written region explored.
MaxLen == 2
\* Largest over-allocation Vec::reserve may add beyond what is required.
MaxSlack == 0

\* ------------------------------------------------------------- constants
DEFAULT_INITIALISATION_SIZE == 8192

\* Byte values are opaque to the buffer: two distinct values suffice.
Byte == {0, 1}
\* The buffer values of the program.
Bufs == {1, 2}

VARIABLES data, rpos, live, hist, op

vars == <<data, rpos, live, hist, op>>

\* op names the last operation, the buffer it acted on and whether it made
\* the buffer's block grow.
Op(name, b) == [name |-> name, buf |-> b, grew |-> FALSE]

\* ------------------------------------------------------------ helpers
Min(a, b) == IF a <= b THEN a ELSE b

Max(a, b) == IF a >= b THEN a ELSE b

RECURSIVE SeqsUpTo(_)
SeqsUpTo(n) == IF n = 0 THEN {<<>>}
               ELSE SeqsUpTo(n - 1) \cup [1..n -> Byte]

\* The byte slices a caller may pass.
Slices == SeqsUpTo(MaxLen)

\* -------------------------------------------------------- Vec<u8> model
\* Vec::with_capacity(size): empty, nothing written to the block yet.
VecWithCapacity(size) == [mem |-> <<>>, len |-> 0, cap |-> size]

\* A clear that gives the block back (what assigning Vec::new() would do).
VecClearShrink(v) == [mem |-> <<>>, len |-> 0, cap |-> 0]

\* Vec::clear: the length drops to 0; the block and its bytes stay.
VecClear(v) == [v EXCEPT !.len = 0]

\* The written region &v[..]: the first len bytes of the block.
VecAsSlice(v) == SubSeq(v.mem, 1, v.len)

\* A reserve that never reallocates.
VecReserveNever(v, n) == {v.cap}

\* The capacities Vec::reserve may leave after making room for n more bytes.
VecReserve(v, n) ==
    IF v.len + n <= v.cap THEN {v.cap}
    ELSE (v.len + n)..(v.len + n + MaxSlack)

\* An extend that copies the slice to the start of the block instead of its
\* end of data.
VecExtendAtStart(v, s, c) ==
    LET n == Len(s)
        m == Max(Len(v.mem), n)
    IN [mem |-> [i \in 1..m |-> IF i <= n THEN s[i] ELSE v.mem[i]],
        len |-> Max(v.len, n),
        cap |-> c]

\* Vec::extend_from_slice(s) with the capacity c chosen by reserve: the bytes
\* of s are stored at [len, len + Len(s)); the rest of the block is untouched.
VecExtend(v, s, c) ==
    LET n == Len(s)
        m == Max(Len(v.mem), v.len + n)
    IN [mem |-> [i \in 1..m |->
                    IF i <= v.len THEN v.mem[i]
                    ELSE IF i <= v.len + n THEN s[i - v.len]
                    ELSE v.mem[i]],
        len |-> v.len + n,
        cap |-> c]

\* Vec's PartialEq: equal lengths and equal elements below the length.
VecEq(v, w) ==
    /\ v.len = w.len
    /\ \A i \in 1..v.len : v.mem[i] = w.mem[i]

\* Vec's Clone: a new block holding the written region only.
VecClone(v) == [mem |-> VecAsSlice(v), len |-> v.len, cap |-> v.len]

\* v[index] = x through a mutable slice of the written region.
VecSet(v, index, x) == [v EXCEPT !.mem[index + 1] = x]

\* ---------------------------------------------------- Buffer accessors
capacity(b) == data[b].cap

as_slice(b) == VecAsSlice(data[b])

is_empty(b) == data[b].len = 0

\* ------------------------------------------------------------- Init
\* hist is the record of what the caller handed to the buffer and got from
\* it since it was last constructed or cleared: bytes is the seed followed
\* by every slice written, in call order; got is what the successful reads
\* delivered, in call order.  exact is FALSE once a byte was overwritten in
\* place.
NoHist == [exact |-> TRUE, bytes |-> <<>>, got |-> <<>>]

Tainted == [exact |-> FALSE, bytes |-> <<>>, got |-> <<>>]

Seeded(val) == [exact |-> TRUE, bytes |-> val, got |-> <<>>]

Wrote(h, s) == IF h.exact THEN [h EXCEPT !.bytes = @ \o s] ELSE h

\* r is the outcome of a read.
Got(h, r) == IF h.exact /\ ~r.panic THEN [h EXCEPT !.got = @ \o r.dst] ELSE h

\* No buffer exists yet; the entries of a buffer that does not exist are
\* placeholders that nothing reads.
Init ==
    /\ data = [b \in Bufs |-> VecWithCapacity(0)]
    /\ rpos = [b \in Bufs |-> 0]
    /\ live = {}
    /\ hist = [b \in Bufs |-> NoHist]
    /\ op = Op("none", 1)

\* ------------------------------------------------- pure parts of the API
\* Slice equality: equal lengths and equal elements.
SliceEq(s, t) ==
    /\ Len(s) = Len(t)
    /\ \A i \in 1..Len(s) : s[i] = t[i]

\* An equality on the unread regions data[rpos ..] (the cursor-aware policy).
eq_unread(a, b) ==
    SliceEq(SubSeq(data[a].mem, rpos[a] + 1, data[a].len),
            SubSeq(data[b].mem, rpos[b] + 1, data[b].len))

\* impl PartialEq for Buffer
eq(a, b) == VecEq(data[a], data[b])

\* impl PartialEq<[u8]> and PartialEq<[u8; N]> for Buffer
eq_slice(b, s) == SliceEq(VecAsSlice(data[b]), s)

\* An index checked against the bytes present in the block, not the length.
index_block(b, i) ==
    IF i < Len(data[b].mem) THEN [panic |-> FALSE, byte |-> data[b].mem[i + 1]]
    ELSE [panic |-> TRUE, byte |-> 0]

\* impl Index<usize>: the byte, or a panic for an index outside the slice.
index(b, i) ==
    IF i < data[b].len THEN [panic |-> FALSE, byte |-> data[b].mem[i + 1]]
    ELSE [panic |-> TRUE, byte |-> 0]

\* A read that starts over at 0 once it has delivered the last byte, as a
\* ring buffer would.
read_wrap(b, k) ==
    LET len == Min(k, data[b].len - rpos[b])
    IN IF k # len
       THEN [panic |-> TRUE, ret |-> 0, dst |-> <<>>, rpos |-> rpos[b]]
       ELSE [panic |-> FALSE, ret |-> len,
             dst |-> SubSeq(data[b].mem, rpos[b] + 1, rpos[b] + len),
             rpos |-> IF rpos[b] + len = data[b].len THEN 0 ELSE rpos[b] + len]

\* A read that advances by the destination's length without clamping it.
read_unclamped(b, k) ==
    [panic |-> FALSE, ret |-> k,
     dst |-> SubSeq(data[b].mem, rpos[b] + 1, Min(rpos[b] + k, data[b].len)),
     rpos |-> rpos[b] + k]

\* A read that always copies from the start of the data.
read_from_start(b, k) ==
    LET len == Min(k, data[b].len - rpos[b])
    IN IF k # len
       THEN [panic |-> TRUE, ret |-> 0, dst |-> <<>>, rpos |-> rpos[b]]
       ELSE [panic |-> FALSE, ret |-> len,
             dst |-> SubSeq(data[b].mem, 1, len),
             rpos |-> rpos[b] + len]

\* impl std::io::Read, with a destination of length k: len is the count to
\* transfer; copy_from_slice panics unless source and destination have the
\* same length, and it runs before rpos is advanced.
read(b, k) ==
    LET len == Min(k, data[b].len - rpos[b])
    IN IF k # len
       THEN [panic |-> TRUE, ret |-> 0, dst |-> <<>>, rpos |-> rpos[b]]
       ELSE [panic |-> FALSE, ret |-> len,
             dst |-> SubSeq(data[b].mem, rpos[b] + 1, rpos[b] + len),
             rpos |-> rpos[b] + len]

\* A write that stores only what fits the present capacity and reports that
\* count.
write_partial(b, bytes, c) ==
    LET n == Min(Len(bytes), Max(data[b].cap - data[b].len, 0))
    IN [data |-> VecExtend(data[b], SubSeq(bytes, 1, n), data[b].cap),
        ret |-> n]

\* impl std::io::Write :: write(bytes), with the capacity c chosen by
\* reserve: the data after the call and the count returned in Ok.
write(b, bytes, c) ==
    [data |-> VecExtend(data[b], bytes, c), ret |-> Len(bytes)]

\* impl codec::Input :: remaining_len
remaining_len(b) == data[b].len - rpos[b]

\* impl codec::Input :: read, with a destination of length k: the same copy
\* as Read::read, but rpos is not assigned.
codec_read(b, k) ==
    LET len == Min(k, data[b].len - rpos[b])
    IN IF k # len
       THEN [panic |-> TRUE, dst |-> <<>>, rpos |-> rpos[b]]
       ELSE [panic |-> FALSE,
             dst |-> SubSeq(data[b].mem, rpos[b] + 1, rpos[b] + len),
             rpos |-> rpos[b]]

\* ---------------------------------------------------------- operations
\* Buffer::new()
New(b) ==
    /\ b \notin live
    /\ live' = live \cup {b}
    /\ data' = [data EXCEPT ![b] = VecWithCapacity(DEFAULT_INITIALISATION_SIZE)]
    /\ rpos' = [rpos EXCEPT ![b] = 0]
    /\ hist' = [hist EXCEPT ![b] = NoHist]
    /\ op' = Op("new", b)

\* Buffer::with_capacity(size)
WithCapacity(b, size) ==
    /\ b \notin live
    /\ live' = live \cup {b}
    /\ data' = [data EXCEPT ![b] = VecWithCapacity(size)]
    /\ rpos' = [rpos EXCEPT ![b] = 0]
    /\ hist' = [hist EXCEPT ![b] = NoHist]
    /\ op' = Op("with_capacity", b)

\* A clear that forgets to reset the read cursor.
ClearKeepRpos(b) ==
    /\ b \in live
    /\ data' = [data EXCEPT ![b] = VecClear(data[b])]
    /\ hist' = [hist EXCEPT ![b] = NoHist]
    /\ op' = Op("clear", b)
    /\ UNCHANGED <<rpos, live>>

\* Buffer::clear()
Clear(b) ==
    /\ b \in live
    /\ data' = [data EXCEPT ![b] = VecClear(data[b])]
    /\ rpos' = [rpos EXCEPT ![b] = 0]
    /\ hist' = [hist EXCEPT ![b] = NoHist]
    /\ op' = Op("clear", b)
    /\ UNCHANGED live

\* Buffer::extend_from_slice(buf)
ExtendFromSlice(b, s) ==
    /\ b \in live
    /\ data[b].len + Len(s) <= MaxLen
    /\ \E c \in VecReserve(data[b], Len(s)) :
          /\ data' = [data EXCEPT ![b] = VecExtend(data[b], s, c)]
          /\ op' = [name |-> "extend_from_slice", buf |-> b, grew |-> c # data[b].cap]
    /\ hist' = [hist EXCEPT ![b] = Wrote(hist[b], s)]
    /\ UNCHANGED <<rpos, live>>

\* An append of the other buffer's unread region only.
append_unread(b, other) ==
    LET s == SubSeq(data[other].mem, rpos[other] + 1, data[other].len)
    IN /\ b \in live
       /\ other \in live
       /\ b # other
       /\ data[b].len + Len(s) <= MaxLen
       /\ \E c \in VecReserve(data[b], Len(s)) :
             /\ data' = [data EXCEPT ![b] = VecExtend(data[b], s, c)]
             /\ op' = [name |-> "append", buf |-> b, grew |-> c # data[b].cap]
       /\ hist' = [hist EXCEPT ![b] = Wrote(hist[b], s)]
       /\ UNCHANGED <<rpos, live>>

\* Buffer::append(&other): extend_from_slice(other.as_slice())
append(b, other) ==
    /\ b \in live
    /\ other \in live
    /\ b # other
    /\ data[b].len + data[other].len <= MaxLen
    /\ \E c \in VecReserve(data[b], data[other].len) :
          /\ data' = [data EXCEPT ![b] = VecExtend(data[b], as_slice(other), c)]
          /\ op' = [name |-> "append", buf |-> b, grew |-> c # data[b].cap]
    /\ hist' = [hist EXCEPT ![b] = Wrote(hist[b], as_slice(other))]
    /\ UNCHANGED <<rpos, live>>

\* Buffer::push(b)
Push(b, x) ==
    /\ b \in live
    /\ data[b].len + 1 <= MaxLen
    /\ \E c \in VecReserve(data[b], 1) :
          /\ data' = [data EXCEPT ![b] = VecExtend(data[b], <<x>>, c)]
          /\ op' = [name |-> "push", buf |-> b, grew |-> c # data[b].cap]
    /\ hist' = [hist EXCEPT ![b] = Wrote(hist[b], <<x>>)]
    /\ UNCHANGED <<rpos, live>>

\* An overwrite in place that also moves the read cursor back to the start.
AsMutSliceRewound(b, i, x) ==
    /\ b \in live
    /\ i < data[b].len
    /\ data' = [data EXCEPT ![b] = VecSet(data[b], i, x)]
    /\ rpos' = [rpos EXCEPT ![b] = 0]
    /\ hist' = [hist EXCEPT ![b] = Tainted]
    /\ op' = Op("as_mut_slice", b)
    /\ UNCHANGED live

\* as_mut_slice()[i] = x, as_mut()[i] = x, or *elem = x through iter_mut()
AsMutSlice(b, i, x) ==
    /\ b \in live
    /\ i < data[b].len
    /\ data' = [data EXCEPT ![b] = VecSet(data[b], i, x)]
    /\ hist' = [hist EXCEPT ![b] = Tainted]
    /\ op' = Op("as_mut_slice", b)
    /\ UNCHANGED <<rpos, live>>

\* A conversion that keeps the vector's bytes but not its last one.
FromVecTruncating(b, val, c) ==
    /\ b \notin live
    /\ live' = live \cup {b}
    /\ data' = [data EXCEPT ![b] =
                   [mem |-> val, len |-> Max(Len(val) - 1, 0), cap |-> c]]
    /\ rpos' = [rpos EXCEPT ![b] = 0]
    /\ hist' = [hist EXCEPT ![b] = Seeded(val)]
    /\ op' = Op("from_vec", b)

\* Buffer::from(val: Vec<u8>): the vector becomes the buffer's data, with
\* whatever capacity it has.
FromVec(b, val, c) ==
    /\ b \notin live
    /\ live' = live \cup {b}
    /\ data' = [data EXCEPT ![b] = [mem |-> val, len |-> Len(val), cap |-> c]]
    /\ rpos' = [rpos EXCEPT ![b] = 0]
    /\ hist' = [hist EXCEPT ![b] = Seeded(val)]
    /\ op' = Op("from_vec", b)

\* Buffer::from(val: &[u8]): Self::new() then extend_from_slice(val)
FromSlice(b, val) ==
    LET new == VecWithCapacity(DEFAULT_INITIALISATION_SIZE)
    IN /\ b \notin live
       /\ live' = live \cup {b}
       /\ \E c \in VecReserve(new, Len(val)) :
             data' = [data EXCEPT ![b] = VecExtend(new, val, c)]
       /\ rpos' = [rpos EXCEPT ![b] = 0]
       /\ hist' = [hist EXCEPT ![b] = Seeded(val)]
       /\ op' = Op("from_slice", b)

\* A clone that copies the bytes but starts its read cursor at 0.
CloneRewound(b, other) ==
    /\ b \notin live
    /\ other \in live
    /\ live' = live \cup {b}
    /\ data' = [data EXCEPT ![b] = VecClone(data[other])]
    /\ rpos' = [rpos EXCEPT ![b] = 0]
    /\ hist' = [hist EXCEPT ![b] = hist[other]]
    /\ op' = Op("clone", b)

\* #[derive(Clone)]: b = other.clone()
Clone(b, other) ==
    /\ b \notin live
    /\ other \in live
    /\ live' = live \cup {b}
    /\ data' = [data EXCEPT ![b] = VecClone(data[other])]
    /\ rpos' = [rpos EXCEPT ![b] = rpos[other]]
    /\ hist' = [hist EXCEPT ![b] = hist[other]]
    /\ op' = Op("clone", b)

\* std::io::Write::write(bytes)
Write(b, bytes) ==
    /\ b \in live
    /\ data[b].len + Len(bytes) <= MaxLen
    /\ \E c \in VecReserve(data[b], Len(bytes)) :
          /\ data' = [data EXCEPT ![b] = write(b, bytes, c).data]
          /\ op' = [name |-> "write", buf |-> b, grew |-> c # data[b].cap]
    /\ hist' = [hist EXCEPT ![b] = Wrote(hist[b], bytes)]
    /\ UNCHANGED <<rpos, live>>

\* std::io::Write::flush()
Flush(b) ==
    /\ b \in live
    /\ op' = Op("flush", b)
    /\ UNCHANGED <<data, rpos, live, hist>>

\* A read that removes the delivered bytes from the front of the data.
ReadDraining(b, k) ==
    LET r == read(b, k)
        v == data[b]
    IN /\ b \in live
       /\ data' = [data EXCEPT ![b] =
                      [mem |-> SubSeq(v.mem, r.ret + 1, Len(v.mem)),
                       len |-> v.len - r.ret,
                       cap |-> v.cap]]
       /\ op' = Op(IF r.panic THEN "read_panic" ELSE "read", b)
       /\ hist' = [hist EXCEPT ![b] = Got(hist[b], r)]
       /\ UNCHANGED <<rpos, live>>

\* std::io::Read::read(buf) with buf.len() = k; a panic leaves the buffer as
\* it was.
Read(b, k) ==
    /\ b \in live
    /\ rpos' = [rpos EXCEPT ![b] = read(b, k).rpos]
    /\ op' = Op(IF read(b, k).panic THEN "read_panic" ELSE "read", b)
    /\ hist' = [hist EXCEPT ![b] = Got(hist[b], read(b, k))]
    /\ UNCHANGED <<data, live>>

\* codec::Input::read(buf) with buf.len() = k
CodecRead(b, k) ==
    /\ b \in live
    /\ rpos' = [rpos EXCEPT ![b] = codec_read(b, k).rpos]
    /\ op' = Op(IF codec_read(b, k).panic THEN "codec_read_panic"
                ELSE "codec_read", b)
    /\ UNCHANGED <<data, live, hist>>

\* The owner releases the buffer: its storage is freed.
Drop(b) ==
    /\ b \in live
    /\ live' = live \ {b}
    /\ data' = [data EXCEPT ![b] = VecWithCapacity(0)]
    /\ rpos' = [rpos EXCEPT ![b] = 0]
    /\ hist' = [hist EXCEPT ![b] = NoHist]
    /\ op' = Op("drop", b)

\* The program: buffer 1 is the buffer under use, driven through the whole
\* API; buffer 2 is a second value (the operand of append, eq and clone) that
\* is only constructed, cloned from buffer 1 and dropped.
Next ==
    \/ \E b \in Bufs : New(b)
    \/ \E b \in Bufs, size \in 0..MaxLen : WithCapacity(b, size)
    \/ \E b \in Bufs, val \in Slices, k \in 0..MaxSlack : FromVec(b, val, Len(val) + k)
    \/ \E b \in Bufs, val \in Slices : FromSlice(b, val)
    \/ Clone(2, 1)
    \/ \E b \in Bufs : Drop(b)
    \/ Clear(1)
    \/ \E s \in Slices : ExtendFromSlice(1, s)
    \/ append(1, 2)
    \/ \E x \in Byte : Push(1, x)
    \/ \E i \in 0..(MaxLen - 1), x \in Byte : AsMutSlice(1, i, x)
    \/ \E bytes \in Slices : Write(1, bytes)
    \/ Flush(1)
    \/ \E k \in 0..MaxLen : Read(1, k)

Spec == Init /\ [][Next]_vars

\* ------------------------------------------- a cleared buffer and a fresh one
\* Right after buffer 1 was cleared, buffer 2 is constructed empty with the
\* same capacity.
FreshTwin ==
    /\ op = Op("clear", 1)
    /\ WithCapacity(2, capacity(1))

\* The same slice is written to both buffers (extend_from_slice, push or
\* write, named by w), each reserving for itself.
BothExtend(w, s) ==
    /\ live = {1, 2}
    /\ data[1].len + Len(s) <= MaxLen
    /\ data[2].len + Len(s) <= MaxLen
    /\ \E c1 \in VecReserve(data[1], Len(s)), c2 \in VecReserve(data[2], Len(s)) :
          /\ data' = [data EXCEPT ![1] = VecExtend(data[1], s, c1),
                                  ![2] = VecExtend(data[2], s, c2)]
          /\ op' = [name |-> w, buf |-> 1, grew |-> c1 # data[1].cap]
    /\ hist' = [b \in Bufs |-> Wrote(hist[b], s)]
    /\ UNCHANGED <<rpos, live>>

BothExtendFromSlice(s) == BothExtend("extend_from_slice", s)

BothPush(x) == BothExtend("push", <<x>>)

BothWrite(bytes) == BothExtend("write", bytes)

\* Both buffers are read into destinations of the same length.
BothRead(k) ==
    /\ live = {1, 2}
    /\ rpos' = [b \in Bufs |-> read(b, k).rpos]
    /\ op' = Op(IF read(1, k).panic THEN "read_panic" ELSE "read", 1)
    /\ hist' = [b \in Bufs |-> Got(hist[b], read(b, k))]
    /\ UNCHANGED <<data, live>>

\* The program that uses buffer 1 alone, clears it, makes a fresh buffer 2 of
\* the same capacity and from then on does to both the same writes and reads.
NextFresh ==
    \/ New(1)
    \/ \E size \in 0..MaxLen : WithCapacity(1, size)
    \/ \E val \in Slices, k \in 0..MaxSlack : FromVec(1, val, Len(val) + k)
    \/ \E val \in Slices : FromSlice(1, val)
    \/ 2 \notin live /\ Clear(1)
    \/ 2 \notin live /\ \E s \in Slices : ExtendFromSlice(1, s)
    \/ 2 \notin live /\ \E x \in Byte : Push(1, x)
    \/ 2 \notin live /\ \E i \in 0..(MaxLen - 1), x \in Byte : AsMutSlice(1, i, x)
    \/ 2 \notin live /\ \E bytes \in Slices : Write(1, bytes)
    \/ 2 \notin live /\ \E k \in 0..MaxLen : Read(1, k)
    \/ 2 \notin live /\ Drop(1)
    \/ FreshTwin
    \/ \E s \in Slices : BothExtendFromSlice(s)
    \/ \E x \in Byte : BothPush(x)
    \/ \E bytes \in Slices : BothWrite(bytes)
    \/ \E k \in 0..MaxLen : BothRead(k)
    \/ Drop(2)

SpecFresh == Init /\ [][NextFresh]_vars

\* ------------------------------------------ a buffer used as a codec::Input
\* The program (built with the parity-scale-codec feature) that fills a
\* buffer and reads it through codec::Input as well as through Read.
NextCodec ==
    \/ New(1)
    \/ \E size \in 0..MaxLen : WithCapacity(1, size)
    \/ \E val \in Slices, k \in 0..MaxSlack : FromVec(1, val, Len(val) + k)
    \/ \E val \in Slices : FromSlice(1, val)
    \/ Drop(1)
    \/ Clear(1)
    \/ \E s \in Slices : ExtendFromSlice(1, s)
    \/ \E x \in Byte : Push(1, x)
    \/ \E k \in 0..MaxLen : Read(1, k)
    \/ \E k \in 0..MaxLen : CodecRead(1, k)

SpecCodec == Init /\ [][NextCodec]_vars

\* ------------------------------------------------- a buffer and its clone
\* After the clone, one of the two buffers is chosen by the first operation
\* and the operations that follow act on that one.
Acts(b) == 2 \notin live \/ op.name = "clone" \/ op.buf = b

\* The program that makes buffer 1 from a vector and uses it, clones it into
\* buffer 2, and then writes, overwrites, reads and clears one of the two.
NextClone ==
    \/ \E val \in Slices : FromVec(1, val, Len(val))
    \/ Clone(2, 1)
    \/ Drop(2)
    \/ 2 \notin live /\ Drop(1)
    \/ \E b \in Bufs : Acts(b) /\ Clear(b)
    \/ \E b \in Bufs, x \in Byte : Acts(b) /\ Push(b, x)
    \/ \E b \in Bufs, i \in 0..(MaxLen - 1), x \in Byte : Acts(b) /\ AsMutSlice(b, i, x)
    \/ \E b \in Bufs, k \in 0..MaxLen : Acts(b) /\ Read(b, k)

SpecClone == Init /\ [][NextClone]_vars

\* ------------------------------------------------------------ properties
\* The operations that append bytes.
WriteOps == {"push", "extend_from_slice", "append", "write"}

\* C1: after any sequence of push, extend_from_slice, append and write calls
\* (no in-place overwrite) the written region has the length of, and is equal
\* to, the concatenation in call order of everything handed to the buffer.
C1_WrittenIsConcatenation ==
    \A b \in live :
        hist[b].exact =>
            /\ data[b].len = Len(hist[b].bytes)
            /\ as_slice(b) = hist[b].bytes

\* An append of another buffer's bytes filled the buffer.
C1_Witness ==
    /\ op.name = "append"
    /\ hist[1].exact
    /\ Len(hist[1].bytes) = MaxLen
    /\ data[2].len = 1

\* C2: the read cursor never exceeds the write position.
C2_RposWithinLen ==
    \A b \in live : 0 <= rpos[b] /\ rpos[b] <= data[b].len

\* A buffer cleared, written again and then read to its end.
C2_Witness ==
    /\ op = Op("read", 1)
    /\ rpos[1] = 1
    /\ data[1].len = 1
    /\ Len(data[1].mem) = MaxLen

\* C3: read never fails; with u unread bytes and a destination of length k it
\* returns min(k, u), delivers data[rpos .. rpos + min(k, u)) and advances
\* rpos by min(k, u).
C3_ReadNeverFails ==
    \A b \in live : \A k \in 0..MaxLen :
        LET u == data[b].len - rpos[b]
            n == Min(k, u)
            r == read(b, k)
        IN /\ ~r.panic
           /\ r.ret = n
           /\ r.dst = SubSeq(as_slice(b), rpos[b] + 1, rpos[b] + n)
           /\ r.rpos = rpos[b] + n

\* C4: clear sets the write position and the read cursor to 0, so the buffer
\* is empty, and leaves the capacity as it was.
C4_ClearResetsKeepsCapacity ==
    [][\A b \in Bufs :
          op' = Op("clear", b) =>
              /\ data'[b].len = 0
              /\ rpos'[b] = 0
              /\ is_empty(b)'
              /\ capacity(b)' = capacity(b)]_vars

\* A cleared buffer whose block still holds the bytes written before.
C4_Witness ==
    /\ op = Op("clear", 1)
    /\ data[1].cap = MaxLen
    /\ Len(data[1].mem) = MaxLen
    /\ data[1].len = 0
    /\ rpos[1] = 0

\* C5: once buffer 1 was cleared, the same writes and reads give the same
\* observable results on it as on a buffer freshly constructed with its
\* capacity: the written region, is_empty, equality with each other and with
\* any byte sequence, and what every read returns.
C5_ClearedActsAsFresh ==
    live = {1, 2} =>
        /\ as_slice(1) = as_slice(2)
        /\ is_empty(1) = is_empty(2)
        /\ eq(1, 2)
        /\ \A s \in Slices : eq_slice(1, s) = eq_slice(2, s)
        /\ \A k \in 0..MaxLen : read(1, k) = read(2, k)

\* After the clear both were written and read, and buffer 1 still holds
\* different stale bytes than the fresh buffer.
C5_Witness ==
    /\ live = {1, 2}
    /\ op = Op("read", 1)
    /\ rpos[1] > 0
    /\ data[1].cap = data[2].cap
    /\ data[1].mem # data[2].mem

\* C6: while a buffer lives, its write position and read cursor only
\* decrease in a clear of that buffer, which sets both to 0.
C6_CursorsMonotonic ==
    [][\A b \in live \cap live' :
          (data'[b].len < data[b].len \/ rpos'[b] < rpos[b]) =>
              /\ op' = Op("clear", b)
              /\ data'[b].len = 0
              /\ rpos'[b] = 0]_vars

\* A read, after writes, moved the cursor to the end of a full buffer.
C6_Witness ==
    /\ op = Op("read", 1)
    /\ rpos[1] = MaxLen
    /\ data[1].len = MaxLen
    /\ hist[1].exact

\* C7: a buffer constructed from a byte sequence S has as_slice() = S and
\* read cursor 0.
C7_FromRoundTrip ==
    \A b \in live :
        op \in {Op("from_vec", b), Op("from_slice", b)} =>
            /\ as_slice(b) = hist[b].bytes
            /\ rpos[b] = 0

\* Buffer 2 was just made from a vector of the longest length.
C7_Witness ==
    /\ op = Op("from_vec", 2)
    /\ Len(hist[2].bytes) = MaxLen
    /\ as_slice(2) = hist[2].bytes

\* C8: two buffers are equal iff their full written regions are equal,
\* whatever their read cursors and capacities; a buffer equals a byte
\* sequence iff its full written region is that sequence.
C8_EqIsWrittenRegion ==
    /\ \A a \in live : \A b \in live :
          eq(a, b) <=> (as_slice(a) = as_slice(b))
    /\ \A b \in live : \A s \in Slices :
          eq_slice(b, s) <=> (as_slice(b) = s)

\* Two equal buffers with different read cursors, capacities and stale bytes.
C8_Witness ==
    /\ live = {1, 2}
    /\ eq(1, 2)
    /\ data[1].len > 0
    /\ rpos[1] # rpos[2]
    /\ data[1].cap # data[2].cap
    /\ data[1].mem # data[2].mem

\* C9: the capacity is never below the write position, and a write, whether
\* or not it makes the block grow, leaves the bytes written before it where
\* they were.
C9_GrowthTransparent ==
    [][/\ \A b \in live' : capacity(b)' >= data'[b].len
       /\ \A b \in live :
             op'.name \in WriteOps /\ op'.buf = b =>
                 /\ data'[b].len >= data[b].len
                 /\ SubSeq(as_slice(b)', 1, data[b].len) = as_slice(b)]_vars

\* A write that made the block grow behind bytes written earlier.
C9_Witness ==
    /\ op.name \in WriteOps
    /\ op.grew
    /\ op.buf = 1
    /\ data[1].len = MaxLen
    /\ rpos[1] > 0

\* C10: buf[i] is the i-th byte of the written region for i < len, and a
\* panic for every i >= len, also below the capacity.
C10_IndexWithinWritten ==
    \A b \in live : \A i \in 0..(MaxLen + 1) :
        IF i < data[b].len
        THEN index(b, i) = [panic |-> FALSE, byte |-> as_slice(b)[i + 1]]
        ELSE index(b, i).panic

\* A buffer with stale bytes behind its written region and a moved cursor.
C10_Witness ==
    /\ 1 \in live
    /\ data[1].len > 0
    /\ data[1].len < Len(data[1].mem)
    /\ data[1].len < data[1].cap
    /\ rpos[1] > 0

\* C11: a clone has the written bytes and the read cursor of its original,
\* and afterwards an operation on either of the two leaves the written bytes
\* and the read cursor of the other as they were.
C11_CloneIndependent ==
    [][/\ op' = Op("clone", 2) =>
             /\ as_slice(2)' = as_slice(1)
             /\ rpos'[2] = rpos[1]
             /\ as_slice(1)' = as_slice(1)
             /\ rpos'[1] = rpos[1]
       /\ \A b \in Bufs : \A o \in Bufs \ {b} :
             (live = Bufs /\ live' = Bufs /\ op'.buf = b) =>
                 /\ as_slice(o)' = as_slice(o)
                 /\ rpos'[o] = rpos[o]]_vars

\* The clone was cleared and rewritten while the original kept its bytes and
\* its moved cursor.
C11_Witness ==
    /\ live = Bufs
    /\ op.buf = 2
    /\ op.name \in WriteOps
    /\ Len(data[2].mem) > data[2].len
    /\ rpos[1] > 0
    /\ rpos[2] = 0
    /\ as_slice(1) # as_slice(2)

\* C12: a buffer constructed from a byte sequence of length L has write
\* position L and a capacity of at least max(L, DEFAULT_INITIALISATION_SIZE).
C12_FromPadsCapacity ==
    \A b \in live :
        op \in {Op("from_vec", b), Op("from_slice", b)} =>
            /\ data[b].len = Len(hist[b].bytes)
            /\ capacity(b) >= Max(Len(hist[b].bytes), DEFAULT_INITIALISATION_SIZE)

\* C13: append(&other) leaves the buffer with its old written region
\* followed by the whole written region of other, whatever other's read
\* cursor; the buffer's read cursor and other are unchanged.
C13_AppendWholeOther ==
    [][op'.name = "append" /\ op'.buf = 1 =>
          /\ as_slice(1)' = as_slice(1) \o as_slice(2)
          /\ rpos'[1] = rpos[1]
          /\ data'[2] = data[2]
          /\ rpos'[2] = rpos[2]]_vars

\* A partly read buffer received the bytes of a partly read other buffer.
C13_Witness ==
    /\ op.name = "append"
    /\ op.buf = 1
    /\ rpos[1] > 0
    /\ rpos[2] > 0
    /\ data[1].len > data[2].len

\* C14: with writes and successful reads in any order since the last clear
\* (and no overwrite in place), the bytes the reads delivered, in order, are
\* data[0 .. rpos), and what was written is those bytes followed by the
\* unconsumed data[rpos .. len).
C14_ReadsDeliverInOrder ==
    \A b \in live :
        hist[b].exact =>
            /\ hist[b].got = SubSeq(as_slice(b), 1, rpos[b])
            /\ hist[b].bytes =
                   hist[b].got \o SubSeq(as_slice(b), rpos[b] + 1, data[b].len)

\* Everything written was delivered, two different bytes in write order.
C14_Witness ==
    /\ op = Op("read", 1)
    /\ hist[1].exact
    /\ Len(hist[1].got) >= 2
    /\ hist[1].got = hist[1].bytes
    /\ hist[1].got[1] # hist[1].got[2]

\* C15: codec::Input::read consumes what it delivers: a read that fills a
\* destination of length k <= remaining delivers data[rpos .. rpos + k) and
\* leaves the cursor advanced by k, so remaining_len is smaller by k and the
\* next read starts behind those bytes.
C15_CodecReadConsumes ==
    \A b \in live : \A k \in 1..MaxLen :
        k <= remaining_len(b) =>
            /\ ~codec_read(b, k).panic
            /\ codec_read(b, k).dst = SubSeq(as_slice(b), rpos[b] + 1, rpos[b] + k)
            /\ codec_read(b, k).rpos = rpos[b] + k
            /\ data[b].len - codec_read(b, k).rpos = remaining_len(b) - k

\* C16: a read changes only the read cursor: the written region, its
\* length, the capacity and every equality are as before; and until a clear
\* no later operation removes or moves written bytes (writes only add behind
\* them; an overwrite in place is the caller changing a byte).
C16_ReadKeepsData ==
    [][\A b \in live \cap live' :
          op'.buf = b =>
              /\ op'.name \in {"read", "read_panic"} =>
                    /\ as_slice(b)' = as_slice(b)
                    /\ data'[b].len = data[b].len
                    /\ capacity(b)' = capacity(b)
                    /\ \A o \in live : eq(b, o)' = eq(b, o)
                    /\ \A s \in Slices : eq_slice(b, s)' = eq_slice(b, s)
              /\ op'.name \notin {"clear", "as_mut_slice"} =>
                    SubSeq(as_slice(b)', 1, data[b].len) = as_slice(b)]_vars

\* A buffer read to its end still equals an unread buffer with its bytes.
C16_Witness ==
    /\ op = Op("read", 1)
    /\ live = Bufs
    /\ data[1].len > 0
    /\ rpos[1] = data[1].len
    /\ rpos[2] = 0
    /\ eq(1, 2)

\* C17: Write::write never writes partially: it returns bytes.len(), the
\* write position advances by exactly bytes.len() and the bytes are stored at
\* [old len, old len + bytes.len()); flush changes nothing.
C17_WriteIsWhole ==
    /\ [](\A b \in live : \A bytes \in Slices :
             data[b].len + Len(bytes) <= MaxLen =>
                 \A c \in VecReserve(data[b], Len(bytes)) :
                     /\ write(b, bytes, c).ret = Len(bytes)
                     /\ write(b, bytes, c).data.len = data[b].len + Len(bytes)
                     /\ VecAsSlice(write(b, bytes, c).data) = as_slice(b) \o bytes)
    /\ [][\A b \in live :
             /\ (op'.name = "write" /\ op'.buf = b /\ hist[b].exact) =>
                   as_slice(b)' =
                       as_slice(b) \o SubSeq(hist'[b].bytes, Len(hist[b].bytes) + 1,
                                             Len(hist'[b].bytes))
             /\ op' = Op("flush", b) => UNCHANGED <<data, rpos, live, hist>>]_vars

\* A write filled an unread buffer and had to grow its block.
C17_Witness ==
    /\ op = [name |-> "write", buf |-> 1, grew |-> TRUE]
    /\ data[1].len = MaxLen
    /\ rpos[1] = 0
    /\ hist[1].exact

\* C18: push, extend_from_slice, append, write and an overwrite in place
\* leave the read cursor as it was; an overwrite in place also leaves the
\* length, the capacity and every byte behind the length as they were.
C18_WritesKeepRpos ==
    [][\A b \in live \cap live' :
          /\ (op'.name \in WriteOps \cup {"as_mut_slice"} /\ op'.buf = b) =>
                rpos'[b] = rpos[b]
          /\ op' = Op("as_mut_slice", b) =>
                /\ data'[b].len = data[b].len
                /\ capacity(b)' = capacity(b)
                /\ Len(data'[b].mem) = Len(data[b].mem)
                /\ \A j \in (data[b].len + 1)..Len(data[b].mem) :
                      data'[b].mem[j] = data[b].mem[j]]_vars

\* A byte was overwritten in a buffer whose cursor stands inside the data.
C18_Witness ==
    /\ op = Op("as_mut_slice", 1)
    /\ rpos[1] > 0
    /\ rpos[1] < data[1].len
    /\ ~hist[1].exact
====
